---- MODULE Spec2Model ----
(***************************************************************************)
(* The collection goal of the BW4T tutorial (bw4t/goals.py): a goal that   *)
(* tracks, tick by tick, which objects lie on the drop-off tiles of a      *)
(* named zone and decides whether the requested objects were collected,    *)
(* optionally in the requested order.  The grid world around it (the       *)
(* objects, their locations and properties, the tick counter) is the       *)
(* environment; goal_reached and get_progress are the operations.          *)
(***************************************************************************)
EXTENDS Integers, Sequences, FiniteSets, TLC

\* The simulation is cut off after this tick.
MaxTick == 2

---------------------------------------------------------------------------
\* The world: tiles, one collection target and blocks, in the order in which
\* they were registered with the grid world (environment_objects keeps it).

area_name == "zone"
other_name == "zone_target"

TileIds == <<"t1", "t2">>
TargetIds == <<"g1">>
BlockIds == <<"b1", "b2">>
ObjIds == TileIds \o TargetIds \o BlockIds

Range(s) == {s[i] : i \in 1..Len(s)}

Locs == {"z1", "z2", "out"}
Colours == {"red", "blue", "green"}

\* Where the markers stand: tile t1 on z1, tile t2 on z2, the target on the
\* first tile's location.
marker_loc(id) == IF id = "t2" THEN "z2" ELSE "z1"

\* A requirement entry: a mapping from (flattened) property path to value.
ColourPath == <<"visualization", "colour">>
Req(c) == {[path |-> ColourPath, val |-> c]}
Red == Req("red")
Blue == Req("blue")
\* A requirement of two pairs: the colour red and the name of block b1.
RedB1 == Red \cup {[path |-> <<"name">>, val |-> "b1"]}
\* A requirement that the tiles and the target marker meet, and no block.
Immovable == {[path |-> <<"is_movable">>, val |-> "False"]}

\* The collection_objects lists the target marker may carry.
TargetChoices ==
    {<< >>, <<Red>>, <<Red, Blue>>, <<Red, Red>>, <<Immovable>>, <<RedB1>>}

VARIABLES
    tick,               \* grid_world.current_nr_ticks
    location,           \* location of every block
    colour,             \* visualisation colour of every block
    tile_name,          \* 'name' property of every tile
    target_zone,        \* 'collection_zone_name' of the target marker
    collection_objects, \* 'collection_objects' of the target marker
    target_loc,         \* location of the target marker
    in_order,           \* CollectionGoal.__in_order
    drop_off_locs,      \* CollectionGoal.__drop_off_locs
    target,             \* CollectionGoal.__target
    dropped_objects,    \* CollectionGoal.__dropped_objects (insertion order)
    attained_rank,      \* CollectionGoal.__attained_rank
    is_done,            \* WorldGoal.is_done
    ret,                \* outcome of this tick's goal_reached call
    removed,            \* 'removed' of that call: the ids it popped
    progress,           \* outcome of the latest get_progress call since then
    other,              \* a second CollectionGoal instance on the same zone
    simulation_goal,    \* builder.world_settings["simulation_goal"]
    object_settings,    \* what builder.add_object was given, call by call
    builder_call,       \* the latest call on the builder and how it ended
    nr_calls,           \* number of calls made on the builder
    memorize_for_ticks, \* what the State was created with (0 for None)
    state_dict,         \* State.__state_dict
    prev_state_dict,    \* State.__prev_state_dict
    decays,             \* State.__decays, in the order of the dict
    updates,            \* the dicts State.update was given, call by call
    update_ret          \* how the latest call of State.update ended

world == <<tick, location, colour>>
config == <<tile_name, target_zone, collection_objects, target_loc, in_order>>
goal == <<drop_off_locs, target, dropped_objects, attained_rank, is_done>>
builder == <<simulation_goal, object_settings, builder_call, nr_calls>>
memory == <<memorize_for_ticks, state_dict, prev_state_dict, decays, updates,
            update_ret>>
aside == <<builder, memory>>
vars == <<world, config, goal, ret, removed, progress, other, aside>>

---------------------------------------------------------------------------
\* Values

\* An attribute that is still None, or the list it was set to.
None == [none |-> TRUE, list |-> << >>]
Some(l) == [none |-> FALSE, list |-> l]

\* What a call came to: nothing yet, a returned value (a boolean, or the
\* float num / den), or a raised exception.
Outcome(kind, num, den) == [kind |-> kind, num |-> num, den |-> den]
NoCall == Outcome("none", 0, 1)
Returned(b) == Outcome(IF b THEN "True" ELSE "False", 0, 1)
Raised(e) == Outcome(e, 0, 1)
Float(n, d) == Outcome("float", n, d)

\* Properties of an object: top-level keys with a value, or with a nested
\* mapping of keys to values.
Atom(k, v) == [key |-> k, nested |-> FALSE, val |-> v, sub |-> {}]
Nested(k, s) == [key |-> k, nested |-> TRUE, val |-> "", sub |-> s]
Keys(props) == {p.key : p \in props}

IsTile(id) == id \in Range(TileIds)
IsTarget(id) == id \in Range(TargetIds)
IsBlock(id) == id \in Range(BlockIds)

tile_properties(id) ==
    { Atom("name", tile_name[id]),
      Atom("is_movable", "False"),
      Atom("is_drop_off", "True"),
      Atom("collection_area_name", "Collection zone"),
      Nested("visualization", {[key |-> "colour", val |-> "#64a064"]}) }

target_properties(id) ==
    { Atom("name", "Collection_target"),
      Atom("is_movable", "False"),
      Atom("is_drop_off_target", "True"),
      Atom("collection_zone_name", target_zone),
      Atom("collection_objects", "list"),
      Atom("is_invisible", "True"),
      Nested("visualization", {[key |-> "colour", val |-> "None"]}) }

block_properties(id) ==
    { Atom("name", id),
      Atom("is_movable", "True"),
      Nested("visualization", {[key |-> "colour", val |-> colour[id]]}) }

properties(id) ==
    IF IsTile(id) THEN tile_properties(id)
    ELSE IF IsTarget(id) THEN target_properties(id)
    ELSE block_properties(id)

obj_location(id) ==
    IF IsBlock(id) THEN location[id]
    ELSE IF IsTarget(id) THEN target_loc
    ELSE marker_loc(id)

\* Nested mappings become path keys: {"a": {"b": 1}} becomes ("a","b") -> 1.
flatten_dict(props) ==
    {[path |-> <<p.key>>, val |-> p.val] : p \in {q \in props : ~q.nested}}
    \cup UNION {{[path |-> <<p.key, s.key>>, val |-> s.val] : s \in p.sub} :
                p \in {q \in props : q.nested}}

\* The value of F at v, with v computed once (an assignment to a local).
With(v, F(_)) == CHOOSE r \in {F(x) : x \in {v}} : TRUE

\* s without the elements that occur earlier in it (a dict keeps the place
\* of a key's first insertion).
RECURSIVE Dedup(_)
Dedup(s) ==
    IF s = << >> THEN << >>
    ELSE With(Dedup(SubSeq(s, 1, Len(s) - 1)), LAMBDA front :
             LET last == s[Len(s)]
             IN IF last \in Range(front) THEN front ELSE Append(front, last))

RECURSIVE Concat(_)
Concat(ss) == IF ss = << >> THEN << >> ELSE Head(ss) \o Concat(Tail(ss))

---------------------------------------------------------------------------
\* CollectionGoal

\* __find_drop_off_locations: the locations of all objects named like the zone.
find_drop_off_locations ==
    LET hit(id) == "name" \in Keys(properties(id))
                   /\ Atom("name", area_name) \in properties(id)
    IN SelectSeq([i \in 1..Len(ObjIds) |-> ObjIds[i]], hit)

found_locs == [i \in 1..Len(find_drop_off_locations) |->
                  obj_location(find_drop_off_locations[i])]

\* __find_collection_objects: the collection_objects of the (last) target
\* marker whose collection_zone_name is the goal's name, else the empty list.
is_collection_target(id) ==
    /\ "collection_zone_name" \in Keys(properties(id))
    /\ Atom("collection_zone_name", area_name) \in properties(id)
    /\ "collection_objects" \in Keys(properties(id))
    /\ "is_drop_off_target" \in Keys(properties(id))
    /\ Atom("is_drop_off_target", "True") \in properties(id)

find_collection_objects ==
    IF \E i \in 1..Len(ObjIds) : is_collection_target(ObjIds[i])
    THEN collection_objects
    ELSE << >>

\* grid_world.get_objects_in_range(loc, sense_range=0): the ids of the
\* objects on loc, in registration order.
get_objects_in_range(loc) ==
    LET at(id) == obj_location(id) = loc
    IN SelectSeq(ObjIds, at)

\* The objects on the drop-off locations, location by location.
obj_ids_at_first(locs) == IF locs = << >> THEN << >> ELSE get_objects_in_range(locs[1])
obj_ids_at(locs) == Concat([i \in 1..Len(locs) |-> get_objects_in_range(locs[i])])

\* A drop-off tile or a collection target is skipped.
is_skipped_never(obj_props) == FALSE
is_skipped_tiles(obj_props) ==
    "is_drop_off" \in Keys(obj_props) /\ "collection_area_name" \in Keys(obj_props)

is_skipped(obj_props) ==
    \/ ("is_drop_off" \in Keys(obj_props) /\ "collection_area_name" \in Keys(obj_props))
    \/ ("is_drop_off_target" \in Keys(obj_props)
           /\ "collection_zone_name" \in Keys(obj_props)
           /\ "is_invisible" \in Keys(obj_props))

\* req_props.items() <= obj_props.items(), on the flattened properties.
matches_some_pair(req_props, obj_props) ==
    req_props \cap flatten_dict(obj_props) # {}
matches(req_props, obj_props) == req_props \subseteq flatten_dict(obj_props)

\* An object is detected when it matches any entry of the target.
is_detected_first(id, tgt) ==
    /\ ~is_skipped(properties(id))
    /\ tgt # << >>
    /\ matches(tgt[1], properties(id))

is_detected(id, tgt) ==
    /\ ~is_skipped(properties(id))
    /\ \E r \in 1..Len(tgt) : matches(tgt[r], properties(id))

\* detected_objs: the detected ids, in the order of their first occurrence.
detected_objs(locs, tgt) ==
    LET keep(id) == is_detected(id, tgt)
    IN With(SelectSeq(obj_ids_at(locs), keep), LAMBDA found : Dedup(found))

LedgerIds(dropped) == {dropped[i].id : i \in 1..Len(dropped)}

\* Every detected id that is not yet a key is appended with the current tick.
add_detected_restamp(dropped, detected, curr_tick) ==
    LET fresh(id) == id \notin LedgerIds(dropped)
        new == SelectSeq(detected, fresh)
    IN [i \in 1..Len(dropped) |->
           IF dropped[i].id \in Range(detected)
           THEN [id |-> dropped[i].id, tick |-> curr_tick]
           ELSE dropped[i]]
       \o [i \in 1..Len(new) |-> [id |-> new[i], tick |-> curr_tick]]

add_detected_again(dropped, detected, curr_tick) ==
    dropped \o [i \in 1..Len(detected) |-> [id |-> detected[i], tick |-> curr_tick]]

add_detected(dropped, detected, curr_tick) ==
    LET fresh(id) == id \notin LedgerIds(dropped)
        new == SelectSeq(detected, fresh)
    IN dropped \o [i \in 1..Len(new) |-> [id |-> new[i], tick |-> curr_tick]]

\* Every key that is not detected any more is popped.
remove_undetected_none(dropped, detected) == dropped
remove_undetected(dropped, detected) ==
    LET still(e) == e.id \in Range(detected)
    IN SelectSeq(dropped, still)

\* sorted(..., key=tick): a stable sort on the arrival tick.
RECURSIVE sorted_by_tick(_)
sorted_by_tick(dropped) ==
    IF dropped = << >> THEN << >>
    ELSE With(sorted_by_tick(SubSeq(dropped, 1, Len(dropped) - 1)), LAMBDA front :
             LET e == dropped[Len(dropped)]
                 le(x) == x.tick <= e.tick
                 gt(x) == x.tick > e.tick
             IN SelectSeq(front, le) \o <<e>> \o SelectSeq(front, gt))

\* The walk over the sorted objects: the rank counts the objects that match
\* the target entry of their rank; it stops at the first that does not.
\* target[rank] raises an IndexError when rank is past the end of the list.
RECURSIVE rank_walk_skipping(_, _, _)
rank_walk_skipping(sorted_dropped_obj, tgt, rank) ==
    IF sorted_dropped_obj = << >> THEN [raised |-> FALSE, rank |-> rank]
    ELSE IF rank >= Len(tgt) THEN [raised |-> TRUE, rank |-> rank]
    ELSE IF matches(tgt[rank + 1], properties(Head(sorted_dropped_obj).id))
         THEN rank_walk_skipping(Tail(sorted_dropped_obj), tgt, rank + 1)
         ELSE rank_walk_skipping(Tail(sorted_dropped_obj), tgt, rank)

RECURSIVE rank_walk(_, _, _)
rank_walk(sorted_dropped_obj, tgt, rank) ==
    IF sorted_dropped_obj = << >> THEN [raised |-> FALSE, rank |-> rank]
    ELSE IF rank >= Len(tgt) THEN [raised |-> TRUE, rank |-> rank]
    ELSE IF matches(tgt[rank + 1], properties(Head(sorted_dropped_obj).id))
         THEN rank_walk(Tail(sorted_dropped_obj), tgt, rank + 1)
         ELSE [raised |-> FALSE, rank |-> rank]

\* Unordered: done when as many objects are collected as were requested.
count_satisfied_at_least(dropped, tgt) == Len(dropped) >= Len(tgt)
count_satisfied(dropped, tgt) == Len(dropped) = Len(tgt)

\* The ids popped from the ledger: the keys that are not detected any more.
removed_ids(dropped, detected) ==
    LET gone(e) == e.id \notin Range(detected)
        popped == SelectSeq(dropped, gone)
    IN [i \in 1..Len(popped) |-> popped[i].id]

\* The attributes of a CollectionGoal instance, as set by __init__.
Instance(ordered) ==
    [in_order |-> ordered, drop_off_locs |-> None, target |-> None,
     dropped_objects |-> << >>, attained_rank |-> 0, is_done |-> FALSE]

\* The instance whose attributes are the variables of this module.
self ==
    [in_order |-> in_order, drop_off_locs |-> drop_off_locs, target |-> target,
     dropped_objects |-> dropped_objects, attained_rank |-> attained_rank,
     is_done |-> is_done]

\* Nothing was added or removed: the past value is returned.
past_value_recount(g, dropped, tgt) == count_satisfied(dropped, tgt)
past_value(g, dropped, tgt) == g.is_done

\* __check_completion on a goal that was not done before: the new ledger, the
\* ids it popped, the new rank, the answer, and whether the walk raised.
check_completion(g, locs, tgt) ==
    With(detected_objs(locs, tgt), LAMBDA detected :
    With(add_detected(g.dropped_objects, detected, tick), LAMBDA added :
    With(remove_undetected(added, detected), LAMBDA dropped :
    With(rank_walk(sorted_by_tick(dropped), tgt, 0), LAMBDA walk :
    With(added # g.dropped_objects \/ dropped # added, LAMBDA is_updated :
        LET popped == removed_ids(added, detected)
        IN IF g.in_order /\ is_updated
           THEN [raised |-> walk.raised, dropped |-> dropped, removed |-> popped,
                 is_updated |-> is_updated,
                 rank |-> IF walk.raised THEN g.attained_rank ELSE walk.rank,
                 sat |-> ~walk.raised /\ walk.rank = Len(tgt)]
           ELSE IF is_updated
           THEN [raised |-> FALSE, dropped |-> dropped, removed |-> popped,
                 is_updated |-> is_updated, rank |-> g.attained_rank,
                 sat |-> count_satisfied(dropped, tgt)]
           ELSE [raised |-> FALSE, dropped |-> dropped, removed |-> popped,
                 is_updated |-> is_updated, rank |-> g.attained_rank,
                 sat |-> past_value(g, dropped, tgt)])))))

\* A goal that is done answers from the stored flag.
short_circuit_never(g) == FALSE
short_circuit(g) == g.is_done

\* goal_reached(grid_world) on the instance g, in a world where the scan for
\* the zone gives scan_locs and the scan for the target gives scan_target:
\* the instance after the call, the outcome of the call, and the ids the call
\* popped from the ledger.
goal_reached_of(g, scan_locs, scan_target) ==
    LET locs == IF g.drop_off_locs.none THEN scan_locs ELSE g.drop_off_locs.list
    IN IF g.drop_off_locs.none /\ Len(locs) = 0
       THEN [inst |-> [g EXCEPT !.drop_off_locs = Some(<< >>)],
             ret |-> Raised("ValueError"), removed |-> << >>]
       ELSE With(IF g.target.none THEN scan_target ELSE g.target.list, LAMBDA tgt :
            With(check_completion(g, locs, tgt), LAMBDA cc :
                LET found == [g EXCEPT !.drop_off_locs = Some(locs),
                                       !.target = Some(tgt)]
                IN IF short_circuit(g)
                   THEN [inst |-> found, ret |-> Returned(g.is_done),
                         removed |-> << >>]
                   ELSE [inst |-> [found EXCEPT
                                     !.dropped_objects = cc.dropped,
                                     !.attained_rank = cc.rank,
                                     !.is_done = IF cc.raised THEN g.is_done
                                                 ELSE cc.sat],
                         ret |-> IF cc.raised THEN Raised("IndexError")
                                 ELSE Returned(cc.sat),
                         removed |-> cc.removed]))

\* Every attribute is set on the instance by __init__: a call on one instance
\* leaves the attributes of another instance as they are.
other_instance_sharing(o, mine) ==
    [o EXCEPT !.inst.dropped_objects = mine.dropped_objects]
other_instance_after(o, mine) == o

\* goal_reached(grid_world) on this module's instance.
goal_reached ==
    \E r \in {goal_reached_of(self, found_locs, find_collection_objects)} :
        /\ drop_off_locs' = r.inst.drop_off_locs
        /\ target' = r.inst.target
        /\ dropped_objects' = r.inst.dropped_objects
        /\ attained_rank' = r.inst.attained_rank
        /\ is_done' = r.inst.is_done
        /\ ret' = r.ret
        /\ removed' = r.removed
        /\ other' = other_instance_after(other, r.inst)

\* The world checks its goal once per tick, after the agents have acted.
GoalReached ==
    /\ ret = NoCall
    /\ goal_reached
    /\ progress' = NoCall
    /\ UNCHANGED <<aside, world, config>>

\* get_progress(grid_world): 1.0 when done, else rank or count over the number
\* of requested objects. len(None) raises a TypeError, x / 0 a ZeroDivisionError.
progress_of(g) ==
    IF g.is_done THEN Float(1, 1)
    ELSE IF g.target.none THEN Raised("TypeError")
    ELSE IF Len(g.target.list) = 0 THEN Raised("ZeroDivisionError")
    ELSE IF g.in_order THEN Float(g.attained_rank, Len(g.target.list))
    ELSE Float(Len(g.dropped_objects), Len(g.target.list))

progress_value == progress_of(self)

get_progress == progress' = progress_value

\* The progress is asked for before the goal's first check or after a check;
\* it reads the goal alone, so asking while the agents act gives nothing new.
GetProgress ==
    /\ ret # NoCall \/ drop_off_locs.none
    /\ get_progress
    /\ UNCHANGED <<aside, world, config, goal, ret, removed, other>>

---------------------------------------------------------------------------
\* The environment: agents carry blocks around, blocks change their
\* properties, the world ticks.

MoveObject ==
    \E b \in Range(BlockIds), l \in Locs :
        /\ ret = NoCall /\ other.ret = NoCall
        /\ location[b] # l
        /\ location' = [location EXCEPT ![b] = l]
        /\ UNCHANGED <<aside, tick, colour, config, goal, ret, removed, progress, other>>

ChangeColour ==
    \E b \in Range(BlockIds), c \in Colours :
        /\ ret = NoCall /\ other.ret = NoCall
        /\ colour[b] # c
        /\ colour' = [colour EXCEPT ![b] = c]
        /\ UNCHANGED <<aside, tick, location, config, goal, ret, removed, progress, other>>

WorldTick ==
    /\ ret # NoCall
    /\ tick < MaxTick
    /\ tick' = tick + 1
    /\ ret' = NoCall
    /\ removed' = << >>
    /\ progress' = NoCall
    /\ UNCHANGED <<aside, location, colour, config, goal, other>>

\* goal_reached(grid_world) on the second instance: it finds the same zone
\* locations, and the target marker of its zone carries other.objs.
GoalReachedOther ==
    /\ other.ret = NoCall
    /\ \E r \in {goal_reached_of(other.inst, found_locs, other.objs)} :
          other' = [other EXCEPT !.inst = r.inst, !.ret = r.ret]
    /\ UNCHANGED <<aside, world, config, goal, ret, removed, progress>>

\* The world ticks after it has checked both of its goals.
WorldTickBoth ==
    /\ ret # NoCall /\ other.ret # NoCall
    /\ tick < MaxTick
    /\ tick' = tick + 1
    /\ ret' = NoCall
    /\ removed' = << >>
    /\ progress' = NoCall
    /\ other' = [other EXCEPT !.ret = NoCall]
    /\ UNCHANGED <<aside, location, colour, config, goal>>

---------------------------------------------------------------------------
\* The world builder (bw4t/builder.py).  Python values the builder is handed:
\* the type and, for a list, tuple or string, the items; n is the number of
\* an int.
PyList(items) == [type |-> "list", items |-> items, n |-> 0]
PyTuple(items) == [type |-> "tuple", items |-> items, n |-> 0]
PyStr(items) == [type |-> "str", items |-> items, n |-> 0]
PyInt(n) == [type |-> "int", items |-> << >>, n |-> n]
PyGoal(g) == [type |-> "goal", items |-> <<g>>, n |-> 0]
PyDict == [type |-> "dict", items |-> << >>, n |-> 0]
PyNone == [type |-> "NoneType", items |-> << >>, n |-> 0]

isinstance(v, types) == v.type \in types

\* An item of collection_locs: an int, an [x, y] of two ints, or a string.
IntItem(i) == [k |-> "int", v |-> <<i>>]
PairItem(x, y) == [k |-> "pair", v |-> <<x, y>>]
StrItem == [k |-> "str", v |-> << >>]
\* An item of collection_objects: a dict of property-value pairs, or a string.
DictItem(req) == [k |-> "dict", v |-> req]
NoDictItem == [k |-> "str", v |-> {}]

\* a + b: lists, tuples and strings concatenate with their own kind, ints
\* add up, and nothing else is defined (a WorldGoal has no __add__).
py_add(a, b) ==
    IF a.type = b.type /\ a.type \in {"list", "tuple", "str"}
    THEN [raised |-> "", value |-> [a EXCEPT !.items = a.items \o b.items]]
    ELSE IF a.type = "int" /\ b.type = "int"
    THEN [raised |-> "", value |-> PyInt(a.n + b.n)]
    ELSE [raised |-> "TypeError", value |-> PyNone]

\* add_goal(builder, world_goal, overwrite) on a builder that holds
\* curr_goals: what it raises and what the builder holds afterwards.
add_goal(curr_goals, world_goal, overwrite) ==
    IF ~isinstance(world_goal, {"int", "goal", "list", "tuple"})
       /\ Len(world_goal.items) > 0
    THEN [raised |-> "ValueError", simulation_goal |-> curr_goals]
    ELSE LET goals == py_add(curr_goals, world_goal)
         IN [raised |-> goals.raised,
             simulation_goal |-> IF goals.raised = "" THEN goals.value
                                 ELSE curr_goals]

\* The check of collection_locs.
IsLoc(l) == l.k = "pair"
incorrect_locs(collection_locs) ==
    ~ /\ isinstance(collection_locs, {"list", "tuple"})
      /\ Len(collection_locs.items) > 0
      /\ \/ /\ Len(collection_locs.items) = 2
            /\ collection_locs.items[1].k = "int"
            /\ collection_locs.items[2].k = "int"
         \/ \E i \in 1..Len(collection_locs.items) : IsLoc(collection_locs.items[i])

\* The check of collection_objects.
incorrect_objects(vals) ==
    ~ /\ isinstance(vals, {"list", "tuple"})
      /\ Len(vals.items) > 0
      /\ vals.items[1].k = "dict"

\* One object handed to builder.add_object.
Tile(l) ==
    [callable_class |-> "CollectionDropOffTile", location |-> l,
     name |-> area_name, collection_objects |-> PyNone]
Target(l, objs) ==
    [callable_class |-> "CollectionTarget", location |-> l,
     name |-> other_name, collection_objects |-> objs]

\* builder.add_object of MATRX, once per item: a location that is no [x, y]
\* is refused by a builder that checks it, and stored by one that does not.
RECURSIVE add_objects(_, _, _)
add_objects(settings, objs, checks) ==
    IF objs = << >> THEN [raised |-> "", settings |-> settings]
    ELSE IF checks /\ ~IsLoc(Head(objs).location)
    THEN [raised |-> "AssertionError", settings |-> settings]
    ELSE add_objects(Append(settings, Head(objs)), Tail(objs), checks)

\* The tiles, one for each l in collection_locs, and then the target on
\* collection_locs[0], with collection_objects cast to a list.
to_add(collection_locs, vals) ==
    [i \in 1..Len(collection_locs.items) |-> Tile(collection_locs.items[i])]
    \o <<Target(collection_locs.items[1],
                PyList(vals.items))>>

\* add_collection_goal(builder, collection_locs, vals, name,
\* overwrite_goals=overwrite), vals being the collection_objects given:
\* what it raises, and what the builder holds afterwards.
add_collection_goal_to(settings, curr_goals, collection_locs, vals, overwrite, checks) ==
    IF incorrect_locs(collection_locs) \/ incorrect_objects(vals)
    THEN [raised |-> "ValueError", settings |-> settings,
          simulation_goal |-> curr_goals]
    ELSE LET added == add_objects(settings,
                                  to_add(collection_locs, vals),
                                  checks)
             goals == add_goal(curr_goals, PyGoal(area_name), overwrite)
         IN IF added.raised # ""
            THEN [raised |-> added.raised, settings |-> added.settings,
                  simulation_goal |-> curr_goals]
            ELSE [raised |-> goals.raised, settings |-> added.settings,
                  simulation_goal |-> goals.simulation_goal]

\* The builder is called at most this many times.
MaxCalls == 2

GoalNames == {"zone", "limit"}
GoalLists == {<< >>} \cup {<<g>> : g \in GoalNames}
                \cup {<<g, h>> : g \in GoalNames, h \in GoalNames}
WorldGoalChoices ==
    {PyInt(100), PyStr(<< >>), PyStr(<<"a">>)}
    \cup {PyGoal(g) : g \in GoalNames}
    \cup {PyList(l) : l \in GoalLists} \cup {PyTuple(l) : l \in GoalLists}

CollectionLocsChoices ==
    { PyTuple(<<IntItem(1), IntItem(2)>>),
      PyList(<<IntItem(1), IntItem(2)>>),
      PyList(<<PairItem(1, 2)>>),
      PyList(<<PairItem(1, 2), PairItem(3, 2)>>),
      PyList(<<StrItem, PairItem(1, 2)>>),
      PyList(<<StrItem>>),
      PyList(<< >>),
      PyInt(5) }

CollectionObjectsChoices ==
    { PyList(<<DictItem(Red)>>),
      PyList(<<DictItem(Red), DictItem(Blue)>>),
      PyTuple(<<DictItem(Red)>>),
      PyList(<<DictItem(Red), NoDictItem>>),
      PyList(<<NoDictItem, DictItem(Red)>>),
      PyList(<< >>),
      PyDict }

NotBuilt ==
    [op |-> "none", world_goal |-> PyNone, collection_locs |-> PyNone,
     collection_objects |-> PyNone, overwrite |-> FALSE, raised |-> ""]

AddGoal ==
    \E world_goal \in WorldGoalChoices, overwrite \in BOOLEAN :
    \E r \in {add_goal(simulation_goal, world_goal, overwrite)} :
        /\ nr_calls < MaxCalls
        /\ nr_calls' = nr_calls + 1
        /\ simulation_goal' = r.simulation_goal
        /\ builder_call' = [NotBuilt EXCEPT !.op = "add_goal",
                                     !.world_goal = world_goal,
                                     !.overwrite = overwrite,
                                     !.raised = r.raised]
        /\ UNCHANGED <<world, config, goal, ret, removed, progress, other,
                       object_settings, memory>>

AddCollectionGoal ==
    \E collection_locs \in CollectionLocsChoices,
       vals \in CollectionObjectsChoices,
       overwrite \in BOOLEAN, checks \in BOOLEAN :
    \E r \in {add_collection_goal_to(object_settings, simulation_goal,
                                     collection_locs, vals,
                                     overwrite, checks)} :
        /\ nr_calls < MaxCalls
        /\ nr_calls' = nr_calls + 1
        /\ simulation_goal' = r.simulation_goal
        /\ object_settings' = r.settings
        /\ builder_call' = [NotBuilt EXCEPT !.op = "add_collection_goal",
                                     !.collection_locs = collection_locs,
                                     !.collection_objects = vals,
                                     !.overwrite = overwrite,
                                     !.raised = r.raised]
        /\ UNCHANGED <<world, config, goal, ret, removed, progress, other,
                       memory>>

\* A builder as its constructor leaves it: the goal it was given (the number
\* of ticks to run, one goal, or a list or tuple of goals) and no objects.
InitBuilder ==
    /\ simulation_goal \in {PyInt(1000), PyGoal("limit"),
                            PyList(<<"limit">>), PyTuple(<<"limit">>)}
    /\ object_settings = << >>
    /\ builder_call = NotBuilt
    /\ nr_calls = 0

---------------------------------------------------------------------------
\* The State of an agent (bw4t/state.py): what it perceives now and, with
\* memorize_for_ticks, what it perceived shortly before.

\* State.update is called at most this many times.
MaxUpdates == 4

\* The perceived objects and what a perceived object may look like.
PerceivedIds == {"a", "b"}
Props == {"p", "q"}
\* The dicts update may be given: some of the objects, each with properties.
StateDicts == UNION {[ids -> Props] : ids \in SUBSET PerceivedIds}
keys(d) == DOMAIN d

\* The orders in which a loop may run through a set.
Orders(ids) ==
    {o \in [1..Cardinality(ids) -> ids] :
        \A i, j \in 1..Cardinality(ids) : o[i] = o[j] => i = j}

\* A decay is kept as the number of times decay_val = 1.0 / memorize_for_ticks
\* was subtracted from 1.0; zero_after is the number of subtractions after
\* which max(decay - decay_val, 0) is 0 in double arithmetic.  With 3 ticks
\* 1.0 - 1/3 - 1/3 - 1/3 is 1.1e-16, and the fourth subtraction gives 0.
zero_after(n) == IF n = 3 THEN 4 ELSE n

decay_keys(d) == {d[i].id : i \in 1..Len(d)}
index_of(d, obj_id) == CHOOSE i \in 1..Len(d) : d[i].id = obj_id

\* self.__decays[obj_id] = 1.0
reset_decay(d, obj_id) ==
    IF obj_id \in decay_keys(d)
    THEN [d EXCEPT ![index_of(d, obj_id)].k = 0]
    ELSE Append(d, [id |-> obj_id, k |-> 0])

RECURSIVE reset_decays(_, _)
reset_decays(d, order) ==
    IF order = << >> THEN d
    ELSE reset_decays(reset_decay(d, Head(order)), Tail(order))

\* for obj_id in gone_ids: decays[obj_id] = max(decays[obj_id] - decay_val, 0)
RECURSIVE decay_gone(_, _, _)
decay_gone(d, order, zero) ==
    IF order = << >> THEN [raised |-> "", decays |-> d]
    ELSE IF Head(order) \notin decay_keys(d)
    THEN [raised |-> "KeyError", decays |-> d]
    ELSE LET i == index_of(d, Head(order))
             k == IF d[i].k < zero THEN d[i].k + 1 ELSE zero
         IN decay_gone([d EXCEPT ![i].k = k], Tail(order), zero)

RemoveAt(d, i) == SubSeq(d, 1, i - 1) \o SubSeq(d, i + 1, Len(d))

\* for obj_id, decay in decays.items(): keep it, or pop it; a pop changes the
\* size of the dict the loop runs through, which ends the loop with an error.
keep_or_pop(d, zero) ==
    LET zeros == {i \in 1..Len(d) : d[i].k >= zero}
    IN IF zeros = {}
       THEN [raised |-> "", decays |-> d, to_keep_ids |-> decay_keys(d)]
       ELSE LET first == CHOOSE i \in zeros : \A j \in zeros : i <= j
            IN [raised |-> "RuntimeError", decays |-> RemoveAt(d, first),
                to_keep_ids |-> {}]

\* The new state: of the ids to keep, what is perceived now, and else what
\* the previous state holds.
new_state_keeping(to_keep_ids, state, prev_state) ==
    [obj_id \in (to_keep_ids \cup keys(prev_state))
                   \cap (keys(state) \cup keys(prev_state)) |->
        IF obj_id \in keys(state) THEN state[obj_id] ELSE prev_state[obj_id]]

new_state(to_keep_ids, state, prev_state) ==
    [obj_id \in to_keep_ids \cap (keys(state) \cup keys(prev_state)) |->
        IF obj_id \in keys(state) THEN state[obj_id] ELSE prev_state[obj_id]]

\* update(state) on a State without memory.
update_without_decay(state) ==
    [raised |-> "", decays |-> decays,
     state_dict |-> new_state(keys(state), state, state_dict),
     prev_state_dict |-> state_dict]

\* update(state) on a State with memory, the loops running through gone_ids
\* and through the perceived ids in the given orders.
update_with_decay(state, gone_order, seen_order) ==
    With(decay_gone(decays, gone_order, zero_after(memorize_for_ticks)),
         LAMBDA gone :
    IF gone.raised # ""
    THEN [raised |-> gone.raised, decays |-> gone.decays,
          state_dict |-> state_dict, prev_state_dict |-> prev_state_dict]
    ELSE With(keep_or_pop(reset_decays(gone.decays, seen_order),
                          zero_after(memorize_for_ticks)),
              LAMBDA kept :
         IF kept.raised # ""
         THEN [raised |-> kept.raised, decays |-> kept.decays,
               state_dict |-> state_dict, prev_state_dict |-> prev_state_dict]
         ELSE [raised |-> "", decays |-> kept.decays,
               state_dict |-> new_state(kept.to_keep_ids, state, state_dict),
               prev_state_dict |-> state_dict]))

Update ==
    \E state \in StateDicts :
    \E gone_order \in Orders(keys(state_dict) \ keys(state)),
       persistent_order \in Orders(keys(state) \cap keys(state_dict)),
       new_order \in Orders(keys(state) \ keys(state_dict)) :
    \E r \in {IF memorize_for_ticks > 0
              THEN update_with_decay(state, gone_order,
                                     persistent_order \o new_order)
              ELSE update_without_decay(state)} :
        /\ Len(updates) < MaxUpdates
        /\ updates' = Append(updates, state)
        /\ update_ret' = IF r.raised = "" THEN "self" ELSE r.raised
        /\ decays' = r.decays
        /\ state_dict' = r.state_dict
        /\ prev_state_dict' = r.prev_state_dict
        /\ UNCHANGED <<world, config, goal, ret, removed, progress, other,
                       builder, memorize_for_ticks>>

\* State.__init__
EmptyDict == [obj_id \in {} |-> "p"]
InitState ==
    /\ state_dict = EmptyDict
    /\ prev_state_dict = EmptyDict
    /\ decays = << >>
    /\ updates = << >>
    /\ update_ret = "none"

\* The goal's world is not assembled through this builder, and no agent
\* keeps a State of it.
InitAside ==
    /\ simulation_goal = PyInt(1000)
    /\ object_settings = << >>
    /\ builder_call = NotBuilt
    /\ nr_calls = 0
    /\ memorize_for_ticks = 0
    /\ InitState

---------------------------------------------------------------------------
\* A world with one goal: the second instance is never called.
Idle == [inst |-> Instance(FALSE), objs |-> << >>, ret |-> NoCall]

InitOne ==
    /\ tick = 0
    /\ location = [b \in Range(BlockIds) |-> "out"]
    /\ colour \in [Range(BlockIds) -> Colours]
    /\ tile_name \in [Range(TileIds) -> {area_name, other_name}]
    /\ target_zone \in {area_name, other_name}
    /\ collection_objects \in TargetChoices
    /\ target_loc = marker_loc("g1")
    /\ target_zone = other_name => collection_objects = <<Red, Blue>>
    /\ in_order \in BOOLEAN
    /\ drop_off_locs = None
    /\ target = None
    /\ dropped_objects = << >>
    /\ attained_rank = 0
    /\ is_done = FALSE
    /\ ret = NoCall
    /\ removed = << >>
    /\ progress = NoCall
    /\ InitAside

Init == InitOne /\ other = Idle

Next == GoalReached \/ GetProgress \/ MoveObject \/ ChangeColour \/ WorldTick

Spec == Init /\ [][Next]_vars

\* The same world with blocks that keep their colour.
NextFixedColours == GoalReached \/ GetProgress \/ MoveObject \/ WorldTick

SpecFixedColours == Init /\ [][NextFixedColours]_vars

\* A world whose markers change between ticks: a tile is renamed, which adds
\* it to the zone or removes it, and the target marker is given another list.
RenameTile ==
    \E t \in Range(TileIds), n \in {area_name, other_name} :
        /\ ret = NoCall /\ other.ret = NoCall
        /\ tile_name[t] # n
        /\ tile_name' = [tile_name EXCEPT ![t] = n]
        /\ UNCHANGED <<aside, world, target_zone, collection_objects, target_loc,
                       in_order, goal, ret, removed, progress, other>>

EditTarget ==
    \E objs \in {<<Red>>, <<Red, Blue>>} :
        /\ ret = NoCall /\ other.ret = NoCall
        /\ collection_objects # objs
        /\ collection_objects' = objs
        /\ UNCHANGED <<aside, world, tile_name, target_zone, target_loc, in_order,
                       goal, ret, removed, progress, other>>

\* The target marker is put on another location.
MoveTarget ==
    \E l \in Locs :
        /\ ret = NoCall /\ other.ret = NoCall
        /\ target_loc # l
        /\ target_loc' = l
        /\ UNCHANGED <<aside, world, tile_name, target_zone, collection_objects,
                       in_order, goal, ret, removed, progress, other>>

InitMarkers ==
    /\ Init
    /\ colour = [b \in Range(BlockIds) |-> IF b = "b1" THEN "red" ELSE "blue"]
    /\ target_zone = area_name
    /\ collection_objects \in {<<Red>>, <<Red, Blue>>}

NextMarkers ==
    GoalReached \/ GetProgress \/ MoveObject \/ RenameTile \/ EditTarget \/ WorldTick

SpecMarkers == InitMarkers /\ [][NextMarkers]_vars

\* A world whose target marker is carried around, on and off a zone of two
\* tiles; the target asks for blocks, or for what the markers are.
InitTargetMoves ==
    /\ Init
    /\ colour = [b \in Range(BlockIds) |-> IF b = "b1" THEN "red" ELSE "blue"]
    /\ tile_name = [t \in Range(TileIds) |-> area_name]
    /\ target_zone = area_name
    /\ collection_objects \in {<<Red, Blue>>, <<Immovable>>}

NextTargetMoves ==
    GoalReached \/ GetProgress \/ MoveObject \/ MoveTarget \/ WorldTick

SpecTargetMoves == InitTargetMoves /\ [][NextTargetMoves]_vars

\* A world with two goals on one zone that is found, each with a target
\* marker; the second marker lists the same entries in some order.
Reverse(seq) == [i \in 1..Len(seq) |-> seq[Len(seq) + 1 - i]]

InitTwoGoals ==
    /\ InitOne
    /\ tile_name = [t \in Range(TileIds) |-> area_name]
    /\ target_zone = area_name
    /\ collection_objects \in {<<Red>>, <<Red, Blue>>, <<Red, Red>>}
    /\ other \in {[inst |-> Instance(ordered), objs |-> objs, ret |-> NoCall] :
                    ordered \in BOOLEAN,
                    objs \in {collection_objects, Reverse(collection_objects)}}

NextTwoGoals ==
    GoalReached \/ GoalReachedOther \/ MoveObject \/ ChangeColour \/ WorldTickBoth

SpecTwoGoals == InitTwoGoals /\ [][NextTwoGoals]_vars

\* A world of which no goal is checked.
InitIdle ==
    /\ tick = 0
    /\ location = [b \in Range(BlockIds) |-> "out"]
    /\ colour = [b \in Range(BlockIds) |-> "red"]
    /\ tile_name = [t \in Range(TileIds) |-> area_name]
    /\ target_zone = area_name
    /\ collection_objects = <<Red>>
    /\ target_loc = marker_loc("g1")
    /\ in_order = FALSE
    /\ drop_off_locs = None
    /\ target = None
    /\ dropped_objects = << >>
    /\ attained_rank = 0
    /\ is_done = FALSE
    /\ ret = NoCall
    /\ removed = << >>
    /\ progress = NoCall
    /\ other = Idle

\* A builder that is called, before any world is created from it.
InitBuild ==
    /\ InitIdle
    /\ InitBuilder
    /\ memorize_for_ticks = 0
    /\ InitState

NextBuild == AddGoal \/ AddCollectionGoal

SpecBuild == InitBuild /\ [][NextBuild]_vars

\* A State that is updated tick after tick: State(memorize_for_ticks=None),
\* and State(memorize_for_ticks=n).
MemorizeChoices == {1, 2, 3}

InitNoMemory ==
    /\ InitIdle
    /\ InitAside

InitMemory ==
    /\ InitIdle
    /\ simulation_goal = PyInt(1000)
    /\ object_settings = << >>
    /\ builder_call = NotBuilt
    /\ nr_calls = 0
    /\ memorize_for_ticks \in MemorizeChoices
    /\ InitState

SpecNoMemory == InitNoMemory /\ [][Update]_vars

SpecMemory == InitMemory /\ [][Update]_vars

---------------------------------------------------------------------------
\* Properties

\* The blocks that stand on a drop-off location of the resolved zone.
BlocksInZone == {b \in Range(BlockIds) : location[b] \in Range(drop_off_locs.list)}
HasColour(b, c) == colour[b] = c
Entries == Range(dropped_objects)
Resolved(tgt) == ~target.none /\ target.list = tgt

\* A step in which goal_reached was called: only GoalReached gives ret a value.
Called == ret = NoCall /\ ret' # NoCall

\* C1: once goal_reached has returned True, every later call returns True,
\* whatever happens to the objects on the zone: a True answer sets is_done,
\* no step of the world or the goal clears is_done, and a call on a done goal
\* returns True.
C1_IdempotentCompletion ==
    [][ /\ (Called /\ ret' = Returned(TRUE)) => is_done'
        /\ is_done => is_done'
        /\ (Called /\ is_done) => ret' = Returned(TRUE) ]_vars

\* The goal was reached in an earlier tick, the collected blocks have left the
\* zone since, and this tick's call returned True.
C1_Witness ==
    /\ is_done
    /\ ret = Returned(TRUE)
    /\ dropped_objects # << >>
    /\ \A e \in Entries : e.tick < tick /\ location[e.id] = "out"

\* C2: without order and with at least one requested object, a call on a goal
\* that is not done returns True exactly when, after the call, the ledger
\* holds as many objects as were requested.
C2_UnorderedPolicy ==
    [][ (Called /\ ~in_order /\ ~is_done /\ Len(target'.list) >= 1)
        => (ret' = Returned(TRUE) <=> Len(dropped_objects') = Len(target'.list)) ]_vars

\* A call has just answered True with two collected blocks for two requests.
C2_Witness ==
    /\ ~in_order
    /\ ret = Returned(TRUE)
    /\ Resolved(<<Red, Blue>>)
    /\ Len(dropped_objects) = 2
    /\ \E e \in Entries : e.tick = tick

\* The longest prefix of the ledger, in arrival order, whose i-th object
\* matches the i-th requested object.
RECURSIVE PrefixRank(_, _, _)
PrefixRank(entries, tgt, i) ==
    IF i > Len(entries) \/ i > Len(tgt) THEN i - 1
    ELSE IF tgt[i] \subseteq flatten_dict(properties(entries[i].id))
         THEN PrefixRank(entries, tgt, i + 1)
         ELSE i - 1

SortedByTick(entries) ==
    \A i, j \in 1..Len(entries) : i < j => entries[i].tick <= entries[j].tick

\* C3: in order (and with at least one requested object), after a call on a
\* goal that is not done the ledger is in arrival order, attained_rank is the
\* length of its longest matching prefix, and the call returns True exactly
\* when attained_rank is the number of requested objects.
C3_OrderedPolicy ==
    [][ (Called /\ in_order /\ ~is_done /\ Len(target'.list) >= 1)
        => /\ SortedByTick(dropped_objects')
           /\ attained_rank' = PrefixRank(dropped_objects', target'.list, 1)
           /\ (ret' = Returned(TRUE) <=> attained_rank' = Len(target'.list)) ]_vars

\* The ledger holds a red block, and a blue block that arrived before every
\* red block in it.
BlueBeforeRed ==
    \E b, r \in Entries :
        /\ HasColour(b.id, "blue") /\ HasColour(r.id, "red")
        /\ \A x \in Entries : HasColour(x.id, "red") => b.tick < x.tick

\* C4: in order with [red, blue] requested and blocks that keep their colour,
\* while the ledger holds a blue block that arrived before every red block
\* in it (and holds a red block), attained_rank is 0, the progress is 0 and
\* the goal is not reached.
C4_OrderedBlueFirst ==
    (in_order /\ Resolved(<<Red, Blue>>) /\ BlueBeforeRed)
    => /\ attained_rank = 0
       /\ ~is_done
       /\ ret \in {NoCall, Returned(FALSE)}
       /\ progress_value = Float(0, 2)

\* Blue arrived in one tick, red in the next, both still stand on the zone,
\* and the goal answered False and reports no progress.
C4_Witness ==
    /\ in_order /\ Resolved(<<Red, Blue>>) /\ BlueBeforeRed
    /\ \A e \in Entries : e.id \in BlocksInZone
    /\ ret = Returned(FALSE)
    /\ progress = Float(0, 2)

\* Exactly one red and one blue block stand on the zone.
OneRedOneBlue ==
    LET reds == {b \in BlocksInZone : HasColour(b, "red")}
        blues == {b \in BlocksInZone : HasColour(b, "blue")}
    IN Cardinality(reds) = 1 /\ Cardinality(blues) = 1

\* C5: without order and with [red, blue] requested, a call made while the
\* matching blocks on the zone are exactly one red and one blue block returns
\* True, and the progress is 1.0 from then on.
C5_UnorderedCorrectness ==
    [][ (Called /\ ~in_order /\ target' = Some(<<Red, Blue>>) /\ OneRedOneBlue')
        => (ret' = Returned(TRUE) /\ is_done' /\ progress_value' = Float(1, 1)) ]_vars

\* Blue arrived first, on z2; red arrived a tick later, on z1; the call
\* returned True and get_progress returned 1.0.
C5_Witness ==
    /\ ~in_order /\ Resolved(<<Red, Blue>>) /\ OneRedOneBlue
    /\ \E b, r \in Entries :
          /\ HasColour(b.id, "blue") /\ location[b.id] = "z2"
          /\ HasColour(r.id, "red") /\ location[r.id] = "z1"
          /\ b.tick < r.tick /\ r.tick = tick
    /\ ret = Returned(TRUE)
    /\ progress = Float(1, 1)

\* There is a way to give every requested object a block of its own, standing
\* on the zone and matching it.
HasAssignment ==
    \E f \in [1..Len(target.list) -> BlocksInZone] :
        /\ \A i, j \in 1..Len(target.list) : i # j => f[i] # f[j]
        /\ \A i \in 1..Len(target.list) :
              target.list[i] \subseteq flatten_dict(properties(f[i]))

\* C6: without order, a call on a goal that is not done returns True only when
\* every requested object has a matching block of its own on the zone.
C6_UnorderedRequestedObjects ==
    [][ (Called /\ ~in_order /\ ~is_done /\ ret' = Returned(TRUE))
        => HasAssignment' ]_vars

\* C7: whenever get_progress returns a number, it lies between 0.0 and 1.0.
C7_ProgressRange ==
    progress_value.kind = "float"
    => (0 <= progress_value.num /\ progress_value.num <= progress_value.den)

\* C8: with no target or an empty list of requested objects, get_progress
\* returns 0.0 and raises nothing.
C8_DivisionGuard ==
    (~target.none /\ target.list = << >>)
    => (progress_value.kind = "float" /\ progress_value.num = 0)

\* The zone has a drop-off location, the target marker is missing or empty.
TargetMissing == found_locs # << >> /\ find_collection_objects = << >>

\* C9: when the zone has a drop-off location but the target marker is missing
\* or requests nothing, no call returns True and the goal is never done.
C9_TargetMissingNeverSatisfied ==
    TargetMissing => (ret # Returned(TRUE) /\ ~is_done)

\* A goal without requested objects has answered False in the last tick, with
\* every block standing on its zone.
C9_Witness ==
    /\ TargetMissing
    /\ Resolved(<< >>)
    /\ tick = MaxTick
    /\ BlocksInZone = Range(BlockIds)
    /\ ret = Returned(FALSE)

\* C10: on a zone without any drop-off tile every call raises the ValueError;
\* no call returns an answer.
C10_ZoneNotFoundFatal ==
    found_locs = << >> => ret \in {NoCall, Raised("ValueError")}

\* C11: once the zone has a drop-off location and the target requests at least
\* one object, every call of goal_reached completes and returns a boolean.
C11_TransientNotErrors ==
    (~drop_off_locs.none /\ drop_off_locs.list # << >>
        /\ ~target.none /\ target.list # << >>)
    => ret \in {NoCall, Returned(TRUE), Returned(FALSE)}

\* A tile or the target marker stands on a drop-off location and meets an
\* entry of the target.
MatchingMarkerOnZone ==
    \E m \in Range(TileIds) \cup Range(TargetIds) :
        /\ obj_location(m) \in Range(drop_off_locs.list)
        /\ \E r \in 1..Len(target.list) :
              target.list[r] \subseteq flatten_dict(properties(m))

\* C12: no drop-off tile and no collection target is ever entered into the
\* ledger, also when it stands on the zone and meets a requested entry.
C12_SelfExclusion ==
    \A e \in Entries : e.id \notin Range(TileIds) \cup Range(TargetIds)

\* The markers on the zone meet the requested entry, the goal was checked and
\* its ledger is empty.
C12_Witness ==
    /\ ~drop_off_locs.none /\ ~target.none
    /\ MatchingMarkerOnZone
    /\ ret = Returned(FALSE)
    /\ dropped_objects = << >>

\* An object qualifies when it stands on a drop-off location of the zone, is
\* no tile and no target, and meets an entry of the target.
Qualifies(id) ==
    /\ obj_location(id) \in Range(drop_off_locs.list)
    /\ id \in Range(BlockIds)
    /\ \E r \in 1..Len(target.list) :
          target.list[r] \subseteq flatten_dict(properties(id))

Departed == {e \in Entries : ~Qualifies(e.id)}
Arrived == {b \in Range(BlockIds) : Qualifies(b) /\ b \notin LedgerIds(dropped_objects)}
SameNumber(p, q) == p.kind = "float" /\ q.kind = "float" /\ p.num * q.den = q.num * p.den

\* C13: a call on a goal that is not done removes from the ledger every object
\* that no longer qualifies; without order, when one object has left and none
\* has arrived, the progress after the call is the progress before it minus
\* one over the number of requested objects. A call on a goal that is done
\* leaves the ledger and the progress of 1.0 as they are.
C13_RemovalBeforeCompletion ==
    [][ /\ (Called /\ ~is_done)
            => \A e \in Departed : e.id \notin LedgerIds(dropped_objects')
        /\ (Called /\ ~is_done /\ ~in_order
                /\ Cardinality(Departed) = 1 /\ Arrived = {})
            => SameNumber(progress_value',
                          Float(progress_value.num - 1, progress_value.den))
        /\ (Called /\ is_done)
            => (dropped_objects' = dropped_objects
                   /\ progress_value' = Float(1, 1)) ]_vars

\* Without order, the latest call popped b1 from the ledger, nothing is left
\* in it, and the progress reported after the call is 0 of 2.
C13_Witness ==
    /\ ~in_order
    /\ ret = Returned(FALSE)
    /\ removed = <<"b1">>
    /\ dropped_objects = << >>
    /\ progress = Float(0, 2)

\* C14: a call on a goal that is not done keeps, with its tick, every ledger
\* object that still qualifies, and records every qualifying object that is
\* not in the ledger (never recorded, or removed by an earlier call) with the
\* tick of this call; no object is recorded twice.
C14_TimestampStability ==
    [][ (Called /\ ~is_done)
        => /\ \A e \in Entries : Qualifies(e.id) => e \in Range(dropped_objects')
           /\ \A b \in Arrived : [id |-> b, tick |-> tick] \in Range(dropped_objects')
           /\ Cardinality(LedgerIds(dropped_objects')) = Len(dropped_objects') ]_vars

\* After the call of tick 2 the ledger holds b1 with tick 0, kept by the calls
\* of ticks 1 and 2, and b2 with tick 2, recorded by the call of tick 2.
C14_Witness ==
    /\ tick = 2
    /\ ret # NoCall
    /\ dropped_objects = <<[id |-> "b1", tick |-> 0], [id |-> "b2", tick |-> 2]>>

\* C15: a call on a goal that is done returns True and leaves the ledger, the
\* attained rank, the drop-off locations and the target as they are, and the
\* progress of a goal that is done is 1.0.
C15_TerminalFrozen ==
    [][ (Called /\ is_done)
        => /\ ret' = Returned(TRUE)
           /\ goal' = goal
           /\ progress_value' = Float(1, 1) ]_vars

\* The goal is done and was called again: a block that qualifies stands on the
\* zone and is not in the ledger, the call returned True, the progress is 1.0.
C15_Witness ==
    /\ is_done
    /\ ret = Returned(TRUE)
    /\ Arrived # {}
    /\ progress = Float(1, 1)

\* add_collection_goal(builder, collection_locs, collection_objects, name) with
\* name the goal's name: a tile named name on each of collection_locs, and a
\* target marker whose collection_zone_name is name + "_target".
add_collection_goal(collection_locs, objs) ==
    [tile_name |-> [t \in Range(TileIds) |->
                       IF marker_loc(t) \in collection_locs
                       THEN area_name ELSE other_name],
     target_zone |-> other_name,
     collection_objects |-> objs]

BuiltBy(collection_locs, objs) ==
    LET built == add_collection_goal(collection_locs, objs)
    IN /\ tile_name = built.tile_name
       /\ target_zone = built.target_zone
       /\ collection_objects = built.collection_objects

\* C17: in a world built by add_collection_goal, the first call of goal_reached
\* resolves the zone to the given locations and the target to the given
\* collection_objects.
C17_BuilderLinkage ==
    \A collection_locs \in (SUBSET {"z1", "z2"}) \ {{}} :
        (BuiltBy(collection_locs, <<Red, Blue>>) /\ ret # NoCall)
        => /\ Range(drop_off_locs.list) = collection_locs
           /\ target = Some(<<Red, Blue>>)

\* C18: no object is in the ledger twice, and a goal is done, or a call
\* returns True, only with at least as many different objects in the ledger
\* as there are requested entries, identical or not.
C18_Multiplicity ==
    /\ Cardinality(LedgerIds(dropped_objects)) = Len(dropped_objects)
    /\ (is_done \/ ret = Returned(TRUE))
       => Cardinality(LedgerIds(dropped_objects)) >= Len(target.list)

\* Two red blocks are requested; the red block b1 has stood on the zone alone
\* for three calls, meets both entries, counts once, and the goal is not done.
C18_Witness ==
    /\ Resolved(<<Red, Red>>)
    /\ tick = 2
    /\ ret = Returned(FALSE)
    /\ dropped_objects = <<[id |-> "b1", tick |-> 0]>>
    /\ progress = Float(1, 2)

CalledOther == other.ret = NoCall /\ other'.ret # NoCall
BothCalled == ret # NoCall /\ other.ret # NoCall
SameGoal == other.inst.in_order = in_order /\ other.objs = collection_objects

C20_PermutationInvariance ==
    (~in_order /\ ~other.inst.in_order /\ BothCalled)
    => /\ other.ret = ret
       /\ other.inst.is_done = is_done
       /\ progress_of(other.inst) = progress_value

\* The targets are red, blue and blue, red; only a blue block is on the zone;
\* both goals answered False and report a progress of 1 of 2.
C20_Witness ==
    /\ ~in_order /\ ~other.inst.in_order /\ BothCalled
    /\ Resolved(<<Red, Blue>>)
    /\ other.inst.target = Some(<<Blue, Red>>)
    /\ \E b \in Range(BlockIds) : BlocksInZone = {b} /\ HasColour(b, "blue")
    /\ ret = Returned(FALSE) /\ other.ret = Returned(FALSE)
    /\ progress_value = Float(1, 2) /\ progress_of(other.inst) = Float(1, 2)

\* The requested objects the next call works with: the stored target, or
\* what the scan for the target marker gives when none is stored yet.
RequirementsInUse == IF target.none THEN find_collection_objects ELSE target.list

\* C16: once goal_reached has been called, no step changes the drop-off
\* locations or the requested objects that later calls work with, whatever
\* happens to the tiles and the target marker.
C16_ResolutionMemoized ==
    [][ ~drop_off_locs.none
        => /\ drop_off_locs' = drop_off_locs
           /\ RequirementsInUse' = RequirementsInUse ]_vars

\* The same for a goal whose first call found a drop-off location.
ResolutionMemoizedWhenFound ==
    [][ (~drop_off_locs.none /\ drop_off_locs.list # << >>)
        => /\ drop_off_locs' = drop_off_locs
           /\ ~target.none /\ target' = target ]_vars

\* The objects that qualify: no tile, no target, on a drop-off location of the
\* zone, and meeting an entry of the target.
Qualifying == {id \in Range(ObjIds) : Qualifies(id)}

LedgerLive ==
    /\ LedgerIds(dropped_objects) = Qualifying
    /\ \A e \in Entries : e.tick <= tick

\* C24: after every call of goal_reached on a goal that was not done, the ids
\* in the ledger are exactly the objects that qualify at that moment, and no
\* stored tick is later than the current tick.
C24_LedgerLive ==
    [][ (Called /\ ~is_done) => LedgerLive' ]_vars

\* After the call of tick 1 on a goal that is not done: both blocks stand on
\* the zone, one of them qualifies and is in the ledger since tick 0.
C24_Witness ==
    /\ tick = 1
    /\ ret = Returned(FALSE)
    /\ BlocksInZone = Range(BlockIds)
    /\ \E b \in Range(BlockIds) : dropped_objects = <<[id |-> b, tick |-> 0]>>

\* Every pair of the entry occurs, with an equal value, in the flattened
\* properties of the object.
MeetsEntry(id, entry) ==
    \A kv \in entry :
        \E a \in flatten_dict(properties(id)) : a.path = kv.path /\ a.val = kv.val

\* The two objects have equal values under every path the target mentions.
ValuesAt(id, path) == {a.val : a \in {x \in flatten_dict(properties(id)) : x.path = path}}
AgreeOnMentioned(b, c) ==
    \A r \in 1..Len(target.list) :
        \A kv \in target.list[r] : ValuesAt(b, kv.path) = ValuesAt(c, kv.path)

QualificationRule ==
    /\ \A b \in BlocksInZone :
          b \in LedgerIds(dropped_objects)
          <=> \E r \in 1..Len(target.list) : MeetsEntry(b, target.list[r])
    /\ \A b, c \in BlocksInZone :
          AgreeOnMentioned(b, c)
          => (b \in LedgerIds(dropped_objects) <=> c \in LedgerIds(dropped_objects))

\* C25: a call of goal_reached on a goal that was not done detects a block on
\* the zone exactly when some entry of the target has all its pairs, with
\* equal values, in the block's flattened properties; two blocks on the zone
\* that differ only in properties the target does not mention are both
\* detected or both not.
C25_QualificationRule ==
    [][ (Called /\ ~is_done) => QualificationRule' ]_vars

\* The target asks for a red object named b1; both blocks are red and stand
\* on the zone; b2 meets one pair of the entry only, and b1 alone is detected.
C25_Witness ==
    /\ Resolved(<<RedB1>>)
    /\ ret # NoCall
    /\ BlocksInZone = Range(BlockIds)
    /\ \A b \in Range(BlockIds) : HasColour(b, "red")
    /\ LedgerIds(dropped_objects) = {"b1"}

\* is_updated of the call that is made in this state.
LocsInUse == IF drop_off_locs.none THEN found_locs ELSE drop_off_locs.list
Changed == check_completion(self, LocsInUse, RequirementsInUse).is_updated

\* C26: in a call on a goal that is not done, is_updated is true exactly when
\* the call added an id to the ledger or removed one; when it is false the
\* call returns the stored answer, which is the value of the latest call that
\* returned, and leaves the ledger and the attained rank as they are.
C26_UnchangedTickSkip ==
    [][ /\ (Called /\ ~is_done /\ ret' # Raised("ValueError"))
            => /\ Changed <=> LedgerIds(dropped_objects') # LedgerIds(dropped_objects)
               /\ ~Changed => /\ ret' = Returned(is_done)
                              /\ dropped_objects' = dropped_objects
                              /\ attained_rank' = attained_rank
        /\ (Called /\ ret'.kind \in {"True", "False"}) => ret' = Returned(is_done')
        /\ ~Called => is_done' = is_done ]_vars

\* In order, red then blue requested: the red block b1 is on the zone since
\* tick 0 with rank 1; the call of tick 1 added and removed nothing and
\* returned False.
C26_Witness ==
    /\ in_order
    /\ Resolved(<<Red, Blue>>)
    /\ tick = 1
    /\ ret = Returned(FALSE)
    /\ removed = << >>
    /\ dropped_objects = <<[id |-> "b1", tick |-> 0]>>
    /\ attained_rank = 1

\* What a call of goal_reached made in this state gives: the instance after
\* the call, with its progress, and the outcome of the call.
EvaluateResult == goal_reached_of(self, found_locs, find_collection_objects)

\* C27: two states of the world that differ only in the location of the
\* target marker give the same outcome of goal_reached and the same goal
\* after the call, hence the same progress after it, and the same progress
\* before it.
C27_TargetLocationIrrelevant ==
    [][ target_loc' # target_loc
        => /\ EvaluateResult' = EvaluateResult
           /\ progress_value' = progress_value ]_vars

\* The target marker was moved off the zone, next to the tiles that meet its
\* entry; the goal was called with the marker there and its ledger is empty.
C27_Witness ==
    /\ target_loc = "out"
    /\ Resolved(<<Immovable>>)
    /\ drop_off_locs.list # << >>
    /\ ret = Returned(FALSE)
    /\ dropped_objects = << >>

---------------------------------------------------------------------------
\* The builder

\* Steps in which add_goal, or add_collection_goal, was called.
AddGoalCalled ==
    nr_calls' = nr_calls + 1 /\ builder_call'.op = "add_goal"
AddCollectionGoalCalled ==
    nr_calls' = nr_calls + 1 /\ builder_call'.op = "add_collection_goal"

\* The goals a value of simulation_goal holds.
GoalsOf(v) == IF isinstance(v, {"goal", "list", "tuple"}) THEN v.items ELSE << >>

\* C21: after add_goal(world_goal, overwrite=True), with world_goal a goal or
\* a list or tuple of goals, the builder holds exactly the goals passed; after
\* add_goal(world_goal, overwrite=False) it still holds every goal it held.
C21_AddGoalOverwrite ==
    [][ (AddGoalCalled
         /\ isinstance(builder_call'.world_goal, {"goal", "list", "tuple"}))
        => /\ builder_call'.overwrite
              => GoalsOf(simulation_goal') = GoalsOf(builder_call'.world_goal)
           /\ ~builder_call'.overwrite
              => Range(GoalsOf(simulation_goal))
                    \subseteq Range(GoalsOf(simulation_goal')) ]_vars

\* Some entry of vals, at whatever position, is no mapping.
HasNoDictItem(vals) == \E i \in 1..Len(vals.items) : vals.items[i].k # "dict"

\* C22: add_collection_goal with a list or tuple of collection_objects of
\* which some entry is no mapping raises, and leaves the builder's objects
\* and goals as they were.
C22_MalformedRequirement ==
    [][ (AddCollectionGoalCalled
         /\ isinstance(builder_call'.collection_objects, {"list", "tuple"})
         /\ HasNoDictItem(builder_call'.collection_objects))
        => /\ builder_call'.raised # ""
           /\ object_settings' = object_settings
           /\ simulation_goal' = simulation_goal ]_vars

\* collection_locs is one (x, y) or [x, y].
IsSingleLoc(v) ==
    /\ isinstance(v, {"list", "tuple"})
    /\ Len(v.items) = 2
    /\ v.items[1].k = "int" /\ v.items[2].k = "int"

\* C23: add_collection_goal with collection_locs one (x, y), and a list of
\* mappings as collection_objects, adds exactly one tile, at (x, y), and the
\* target at (x, y).
C23_SingleLocation ==
    [][ (AddCollectionGoalCalled
         /\ IsSingleLoc(builder_call'.collection_locs)
         /\ ~incorrect_objects(builder_call'.collection_objects)
         /\ ~HasNoDictItem(builder_call'.collection_objects))
        => LET xy == PairItem(builder_call'.collection_locs.items[1].v[1],
                              builder_call'.collection_locs.items[2].v[1])
               objs == PyList(builder_call'.collection_objects.items)
           IN object_settings'
                 = object_settings \o <<Tile(xy), Target(xy, objs)>> ]_vars

---------------------------------------------------------------------------
\* The State

\* The dict the latest update was given.
Perceived == updates[Len(updates)]

\* For how many updates in a row obj_id has been missing from the dicts given,
\* since it was last perceived; -1 if it was never perceived.
RECURSIVE missing_for(_, _)
missing_for(u, obj_id) ==
    IF u = << >> THEN -1
    ELSE IF obj_id \in keys(u[Len(u)]) THEN 0
    ELSE LET before == missing_for(SubSeq(u, 1, Len(u) - 1), obj_id)
         IN IF before = -1 THEN -1 ELSE before + 1

\* The properties obj_id had when it was last perceived.
last_perceived(u, obj_id) == u[Len(u) - missing_for(u, obj_id)][obj_id]

\* C28: a State created with memorize_for_ticks=None holds, after every
\* update, exactly the dict that update was given: the same ids, each with
\* the value given, and nothing of earlier updates.
C28_StateWithoutMemory ==
    (memorize_for_ticks = 0 /\ updates # << >>)
    => /\ update_ret = "self"
       /\ keys(state_dict) = keys(Perceived)
       /\ \A obj_id \in keys(Perceived) : state_dict[obj_id] = Perceived[obj_id]

\* The first update perceived a and b; the second perceives b alone, changed.
C28_Witness ==
    /\ memorize_for_ticks = 0
    /\ Len(updates) = 2
    /\ keys(updates[1]) = {"a", "b"} /\ updates[1]["b"] = "p"
    /\ keys(Perceived) = {"b"} /\ Perceived["b"] = "q"
    /\ keys(state_dict) = {"b"} /\ state_dict["b"] = "q"
    /\ keys(prev_state_dict) = {"a", "b"}

\* C29: on a State created with memorize_for_ticks = n >= 1 every update
\* returns; an object missing from the latest k dicts, after it was perceived,
\* is in the state with its last perceived properties while k < n, and is in
\* neither the state nor the decay table once k >= n; an object perceived by
\* the latest update has a full decay.
C29_StateWithMemory ==
    (memorize_for_ticks >= 1 /\ updates # << >>)
    => /\ update_ret = "self"
       /\ \A obj_id \in PerceivedIds :
            LET k == missing_for(updates, obj_id)
            IN /\ (0 <= k /\ k < memorize_for_ticks)
                  => /\ obj_id \in keys(state_dict)
                     /\ state_dict[obj_id] = last_perceived(updates, obj_id)
               /\ k >= memorize_for_ticks
                  => /\ obj_id \notin keys(state_dict)
                     /\ obj_id \notin decay_keys(decays)
               /\ k = 0
                  => /\ obj_id \in decay_keys(decays)
                     /\ decays[index_of(decays, obj_id)].k = 0

====
